---- MODULE Spec2Model ----
(***************************************************************************)
(* Model of rosdistro_reviewer's change-aware YAML engine:                 *)
(*   yaml_lines.py   AnnotatedSafeLoader (line-annotated parse)            *)
(*   git_lines.py    _rangeify (coalescing of added line numbers),         *)
(*                   get_added_lines (revisions, diff, added lines)        *)
(*   yaml_changes.py _contains, _isolate, prune_changed_yaml,              *)
(*                   get_changed_yaml                                      *)
(*                                                                         *)
(* Spec follows one document through parsing, isolating and pruning;       *)
(* SpecGit follows one get_added_lines or get_changed_yaml call on a       *)
(* repository.  A Python dict is the sequence of its items [k, v], so None *)
(* and the empty dict are the same value.                                  *)
(*                                                                         *)
(* A Python range(start, stop) is the tuple <<start, stop>>; a __lines__   *)
(* attribute holding None is the empty tuple.  An object of a type without *)
(* a __lines__ slot (int, bool, None) has kind "int".                      *)
(***************************************************************************)
EXTENDS Integers, Sequences, FiniteSets, TLC

\* ------------------------------------------------------------------ bounds
\* Largest 0-based line index a parser mark can take.
MaxMark == 2

\* Largest number of nodes composed for one document.
MaxNodes == 4

\* Largest number of extra lines a (block) scalar event spans.
MaxSpan == 1

\* Largest number of collections open at once while composing.
MaxDepth == 2

\* Largest number of commits in the repository.
MaxCommits == 3

\* Largest number of lines of the file "f" on either side of a diff.
MaxLines == 3

\* Texts of the mapping keys: both resolve to strings.
KeyVals == {"a", "b"}

\* Texts of the other scalars: "a" resolves to a string, "1" to an integer.
ScalarVals == {"a", "1"}

\* ------------------------------------------------------------ Python values
None == <<>>

range(start, stop) == <<start, stop>>

start(r) == r[1]

stop(r) == r[2]

\* bool(r) for an Optional[range]: None and empty ranges are falsy
Truthy(r) == r # None /\ stop(r) > start(r)

\* hasattr(x, '__lines__'): only the Annotated* types have the slot
HasLinesAttr(x) == x.kind # "int"

\* getattr(x, '__lines__', None)
GetLines(x) == IF HasLinesAttr(x) THEN x.lines ELSE None

\* A node or datum; the same record shape serves composer nodes
\* (kind "map", "seq", "str", "int") and constructed data
\* (kind "dict", "list", "str", "int").
MkNode(kind, lines, items, entries, val) ==
    [kind |-> kind, lines |-> lines, items |-> items,
     entries |-> entries, val |-> val]

\* ---------------------------------------------------------------- variables
VARIABLES
    pc,        \* "compose", "composed", "parsed"; "off" during a git call
    mark,      \* 0-based line of the parser's position in the text
    stack,     \* open collection nodes of the composer, innermost last
    root,      \* the composed root node, None until composed
    count,     \* number of compose_node calls so far
    data,      \* the annotated document (yaml.load result), mutated in place
    changes,   \* the file's added-line ranges given to _isolate
    loaded,    \* history: the document as yaml.load returned it
    before,    \* history: the document as it was before the last call
    calls      \* history: the calls made on the document since it was loaded

vars == <<pc, mark, stack, root, count, data, changes, loaded, before, calls>>

\* The state of one get_added_lines or get_changed_yaml call on a git
\* repository.
VARIABLES
    gpc,         \* where the call stands: "repo" (not yet called), "called",
                 \* "resolved", "added", "loading", "returned", "raised", or
                 \* "off" when no repository is involved
    parents,     \* the commit graph: parents[c] are the parents of commit c
    HEAD,        \* repo.head.commit
    args,        \* the call's target_ref, head_ref (0 is None) and paths
    revs,        \* the commits get_added_lines resolved: head, target, base
    trees,       \* the file contents on the two sides of the diff
    file_lines,  \* get_added_lines' dict lines: path -> added line numbers
    all_changes, \* what get_added_lines returned
    yaml_data,   \* get_changed_yaml's dict data: path -> annotated document
    result,      \* what the call returned, or the name of the error it raised
    trace        \* history: the calls and file reads made so far

gitvars == <<gpc, parents, HEAD, args, revs, trees, file_lines, all_changes,
             yaml_data, result, trace>>

\* The state of a review under construction and of one analyzer call.
VARIABLES
    elements,    \* Review._elements: analyzer name -> list of criteria
    last_added,  \* history: the recommendation before the last criteria came
    mpc,         \* MultiDistroAnalyzer.analyze: "idle", "returned", "raised"
    md_changes,  \* the added lines and the changed YAML analyze was given
    md_result    \* what analyze returned: its criteria and annotations

appvars == <<elements, last_added, mpc, md_changes, md_result>>

allvars == <<vars, gitvars, appvars>>

\* ------------------------------------------------------------ git_lines.py
RECURSIVE rangeifyFrom(_, _, _, _)
\* the loop of _rangeify over sequence[i..], with the generator's locals
\* (chunk_start = 0 stands for None: line numbers are >= 1)
rangeifyFrom(sequence, i, chunk_start, chunk_last) ==
    IF i > Len(sequence)
    THEN IF chunk_start # 0 THEN <<range(chunk_start, chunk_last + 1)>> ELSE <<>>
    ELSE LET item == sequence[i] IN
         IF chunk_start = 0 \/ chunk_last # item - 1
         THEN (IF chunk_start # 0
               THEN <<range(chunk_start, chunk_last + 1)>> ELSE <<>>)
              \o rangeifyFrom(sequence, i + 1, item, item)
         ELSE rangeifyFrom(sequence, i + 1, chunk_start, item)

\* mutant of _rangeify: consecutive items are not folded
_rangeify_singletons(sequence) ==
    [i \in 1..Len(sequence) |-> range(sequence[i], sequence[i] + 1)]

\* mutant of _rangeify: a chunk ends at its last item, not after it
_rangeify_short(sequence) ==
    LET chunks == rangeifyFrom(sequence, 1, 0, 0)
    IN [i \in 1..Len(chunks) |-> range(start(chunks[i]), stop(chunks[i]) - 1)]

_rangeify(sequence) == rangeifyFrom(sequence, 1, 0, 0)

RECURSIVE sorted(_)
\* sorted(lines) for a set of distinct line numbers
sorted(S) ==
    IF S = {} THEN <<>>
    ELSE LET m == CHOOSE x \in S : \A y \in S : x <= y
         IN <<m>> \o sorted(S \ {m})

\* ---------------------------------------------------------- yaml_changes.py
\* mutant of _contains: the comparisons admit equality
_contains_touching(needle, haystack) ==
    /\ needle # None
    /\ \E i \in 1..Len(haystack) :
          /\ start(needle) <= stop(haystack[i])
          /\ stop(needle) >= start(haystack[i])

_contains(needle, haystack) ==
    /\ needle # None
    /\ \E i \in 1..Len(haystack) :
          /\ start(needle) < stop(haystack[i])
          /\ stop(needle) > start(haystack[i])

\* ------------------------------------------------------------ yaml_lines.py
\* The implicit tag of a plain scalar: only strings get the annotated type.
ResolveTag(val) == IF val = "1" THEN "int" ELSE "str"

\* mutant of compose_node_lines: the end line is taken as it comes
compose_node_lines_raw(start_mark, end_mark) ==
    range(start_mark + 1, end_mark + 1)

\* AnnotatedSafeLoader.compose_node: the range recorded from the marks of the
\* event at the head of the stream (0-based lines start_mark, end_mark)
compose_node_lines(start_mark, end_mark) ==
    LET start_line == start_mark + 1
        end_line == end_mark + 1
    IN IF end_line <= start_line
       THEN range(start_line, start_line + 1)
       ELSE range(start_line, end_line)

\* the composer hands a finished node to its parent, or makes it the root
Attach(node) ==
    IF stack = <<>>
    THEN /\ root' = node
         /\ stack' = stack
         /\ pc' = "composed"
    ELSE /\ stack' = [stack EXCEPT ![Len(stack)].items = Append(@, node)]
         /\ UNCHANGED <<root, pc>>

\* a mapping under composition takes a key next when it holds whole pairs
ExpectsKey == stack # <<>> /\ stack[Len(stack)].kind = "map"
                           /\ Len(stack[Len(stack)].items) % 2 = 0

\* the text moves on to its next line
NewLine ==
    /\ pc = "compose"
    /\ mark < MaxMark
    /\ mark' = mark + 1
    /\ UNCHANGED <<pc, stack, root, count, data, changes, loaded, before, calls>>
    /\ UNCHANGED gitvars
    /\ UNCHANGED appvars

\* compose_node on a ScalarEvent that ends span lines below its start
ComposeScalar(val, span) ==
    /\ pc = "compose"
    /\ count < MaxNodes
    /\ mark + span <= MaxMark
    /\ val \in (IF ExpectsKey THEN KeyVals ELSE ScalarVals)
    /\ span > 0 => ResolveTag(val) = "str"
    /\ Attach(MkNode(ResolveTag(val), compose_node_lines(mark, mark + span),
                     <<>>, <<>>, val))
    /\ mark' = mark + span
    /\ count' = count + 1
    /\ UNCHANGED <<data, changes, loaded, before, calls>>
    /\ UNCHANGED gitvars
    /\ UNCHANGED appvars

\* compose_node on a SequenceStartEvent or MappingStartEvent: both marks of
\* a collection's start event are on the line where the collection begins
ComposeCollectionStart(kind) ==
    /\ pc = "compose"
    /\ count < MaxNodes
    /\ Len(stack) < MaxDepth
    /\ ~ExpectsKey
    /\ stack' = Append(stack, MkNode(kind, compose_node_lines(mark, mark),
                                     <<>>, <<>>, ""))
    /\ count' = count + 1
    /\ UNCHANGED <<pc, mark, root, data, changes, loaded, before, calls>>
    /\ UNCHANGED gitvars
    /\ UNCHANGED appvars

RECURSIVE Pairs(_)
\* the (key node, value node) pairs of a mapping node's children
Pairs(items) ==
    IF Len(items) < 2 THEN <<>>
    ELSE <<[k |-> items[1], v |-> items[2]]>> \o Pairs(SubSeq(items, 3, Len(items)))

\* the collection's end event: compose_node returns the node
ComposeCollectionEnd ==
    /\ pc = "compose"
    /\ stack # <<>>
    /\ LET top == stack[Len(stack)]
           rest == SubSeq(stack, 1, Len(stack) - 1)
           node == IF top.kind = "map"
                   THEN MkNode("map", top.lines, <<>>, Pairs(top.items), "")
                   ELSE top
       IN /\ top.kind = "map" => Len(top.items) % 2 = 0
          /\ IF rest = <<>>
             THEN /\ root' = node
                  /\ stack' = rest
                  /\ pc' = "composed"
             ELSE /\ stack' = [rest EXCEPT ![Len(rest)].items = Append(@, node)]
                  /\ UNCHANGED <<root, pc>>
    /\ UNCHANGED <<mark, count, data, changes, loaded, before, calls>>
    /\ UNCHANGED gitvars
    /\ UNCHANGED appvars

\* dict item assignment mapping[key] = value as construct_mapping performs it:
\* an equal key keeps its first key object and position and takes the new value
SetItem(entries, key, value) ==
    IF \E i \in 1..Len(entries) : entries[i].k.val = key.val
    THEN [i \in 1..Len(entries) |->
            IF entries[i].k.val = key.val
            THEN [k |-> entries[i].k, v |-> value] ELSE entries[i]]
    ELSE Append(entries, [k |-> key, v |-> value])

\* mutant of Bubble: the container keeps the range of its start event
NoBubble(lines, child_lines) == lines

\* the stop of a container's range after looking at one child's range
Bubble(lines, child_lines) ==
    IF child_lines # None /\ stop(child_lines) > stop(lines)
    THEN range(start(lines), stop(child_lines))
    ELSE lines

RECURSIVE construct_object(_)
RECURSIVE construct_mapping(_, _)
RECURSIVE construct_sequence(_, _)
RECURSIVE bubble_map(_, _, _)
RECURSIVE bubble_seq(_, _, _)

\* construct_mapping(node, deep=True) over pairs[i..], filling a plain dict
construct_mapping(pairs, i) ==
    IF i = 0 THEN <<>>
    ELSE SetItem(construct_mapping(pairs, i - 1),
                 construct_object(pairs[i].k), construct_object(pairs[i].v))

\* construct_sequence(node, deep=True)
construct_sequence(items, i) ==
    IF i = 0 THEN <<>>
    ELSE Append(construct_sequence(items, i - 1), construct_object(items[i]))

\* the loop of construct_annotated_map over reversed(value.items())[..i]
bubble_map(lines, value, i) ==
    IF i = 0 THEN lines
    ELSE bubble_map(Bubble(Bubble(lines, GetLines(value[i].k)),
                           GetLines(value[i].v)),
                    value, i - 1)

\* the loop of construct_annotated_seq over reversed(value)[..i]
bubble_seq(lines, value, i) ==
    IF i = 0 THEN lines
    ELSE bubble_seq(Bubble(lines, GetLines(value[i])), value, i - 1)

construct_annotated_map(node) ==
    LET value == construct_mapping(node.entries, Len(node.entries))
    IN MkNode("dict", bubble_map(node.lines, value, Len(value)), <<>>, value, "")

construct_annotated_seq(node) ==
    LET value == construct_sequence(node.items, Len(node.items))
    IN MkNode("list", bubble_seq(node.lines, value, Len(value)), value, <<>>, "")

construct_annotated_str(node) == MkNode("str", node.lines, <<>>, <<>>, node.val)

\* the constructor registered for the node's tag; other scalars become plain
\* Python values, which have no __lines__
construct_object(node) ==
    CASE node.kind = "map" -> construct_annotated_map(node)
      [] node.kind = "seq" -> construct_annotated_seq(node)
      [] node.kind = "str" -> construct_annotated_str(node)
      [] OTHER -> MkNode("int", None, <<>>, <<>>, node.val)

\* yaml.load(f, Loader=AnnotatedSafeLoader) once the document is composed
Construct ==
    /\ pc = "composed"
    /\ data' = construct_object(root)
    /\ loaded' = data'
    /\ pc' = "parsed"
    \* the loader and its node graph are dropped when yaml.load returns
    /\ root' = None
    /\ mark' = 0
    /\ count' = 0
    /\ UNCHANGED <<stack, changes, before, calls>>
    /\ UNCHANGED gitvars
    /\ UNCHANGED appvars

\* ---------------------------------------------------- _isolate and pruning
\* mutant of ClearLines: the assignment is lost
KeepLines(x) == x

\* x.__lines__ = None
ClearLines(x) == [x EXCEPT !.lines = None]

\* mutant of KeyModified: a changed key is treated like any other key
KeyNeverModified(k, chgs) == FALSE

\* the test on a mapping key that makes _isolate skip the key's value
KeyModified(k, chgs) == HasLinesAttr(k) /\ _contains(k.lines, chgs)

RECURSIVE _isolate(_, _)
RECURSIVE isolate_items(_, _, _)
RECURSIVE isolate_entries(_, _, _)

\* the loop of _isolate over the items of a list, items[1..i] done
isolate_items(items, chgs, i) ==
    IF i = 0 THEN <<>>
    ELSE LET item == items[i]
             done == isolate_items(items, chgs, i - 1)
         IN IF HasLinesAttr(item)
            THEN IF _contains(item.lines, chgs)
                 THEN Append(done, _isolate(item, chgs))
                 ELSE Append(done, ClearLines(item))
            ELSE Append(done, item)

\* the loop of _isolate over tuple(data.items()), entries[1..i] done
isolate_entries(entries, chgs, i) ==
    IF i = 0 THEN <<>>
    ELSE LET k == entries[i].k
             v == entries[i].v
             done == isolate_entries(entries, chgs, i - 1)
         IN IF KeyModified(k, chgs)
            THEN Append(done, entries[i])
            ELSE Append(done,
                        [k |-> IF HasLinesAttr(k) THEN ClearLines(k) ELSE k,
                         v |-> _isolate(v, chgs)])

_isolate(d, chgs) ==
    IF ~HasLinesAttr(d) THEN d
    ELSE LET d1 == IF ~_contains(d.lines, chgs) THEN ClearLines(d) ELSE d
         IN CASE d.kind = "list" ->
                   [d1 EXCEPT !.items = isolate_items(d.items, chgs, Len(d.items))]
              [] d.kind = "dict" ->
                   [d1 EXCEPT !.entries =
                        isolate_entries(d.entries, chgs, Len(d.entries))]
              [] OTHER -> d1

\* mutant of reversed_enumerate: the loop runs in index order
forward_enumerate(n) == [j \in 1..n |-> j]

\* reversed(tuple(enumerate(data))): the indices of a list of n items in the
\* order the pruning loop visits them
reversed_enumerate(n) == [j \in 1..n |-> n + 1 - j]

\* mutant of ItemChanged: an item that is empty counts as unchanged
ItemChangedAndFull(item) ==
    Truthy(GetLines(item)) /\ (item.kind \in {"list", "dict"} =>
                                  Len(item.items) + Len(item.entries) > 0)

\* mutant of ItemChanged: hasattr is asked instead of the value
ItemHasLines(item) == HasLinesAttr(item)

\* getattr(item, '__lines__', None) as the condition of the list loop
ItemChanged(item) == Truthy(GetLines(item))

\* getattr(k, '__lines__', None) as the condition of the dict loop
KeyChanged(k) == Truthy(GetLines(k))

\* mutant of ValueChanged: a value without the slot counts as changed
ValueChangedOrPlain(v) == Truthy(GetLines(v)) \/ ~HasLinesAttr(v)

\* mutant of ValueChanged: the value's own annotation is not consulted
ValueNeverChanged(v) == FALSE

\* getattr(v, '__lines__', None) as the condition of the dict loop
ValueChanged(v) == Truthy(GetLines(v))

\* del data[idx]
DelIndex(cur, idx) ==
    [j \in 1..(Len(cur) - 1) |-> IF j < idx THEN cur[j] ELSE cur[j + 1]]

\* del data[k]
DelKey(cur, k) ==
    LET Other(e) == e.k.val # k.val IN SelectSeq(cur, Other)

RECURSIVE prune_changed_yaml(_)
RECURSIVE prune_items(_, _, _, _)
RECURSIVE prune_entries(_, _, _)

\* The list loop of prune_changed_yaml.  snapshot is tuple(enumerate(data))
\* with each item under the index it had when the loop began; cur is the
\* list itself, each item tagged with that index to tell the objects apart;
\* order[1..j] have been visited.
prune_items(cur, snapshot, order, j) ==
    IF j = 0 THEN cur
    ELSE LET idx == order[j]
             item == snapshot[idx]
             done == prune_items(cur, snapshot, order, j - 1)
         IN IF ItemChanged(item)
            THEN [p \in 1..Len(done) |->
                    IF done[p].id = idx
                    THEN [id |-> idx, node |-> prune_changed_yaml(done[p].node)]
                    ELSE done[p]]
            ELSE IF idx <= Len(done) THEN DelIndex(done, idx) ELSE done

\* The dict loop of prune_changed_yaml over the snapshot tuple(data.items()),
\* snapshot[1..j] have been visited; cur is the dict itself.
prune_entries(cur, snapshot, j) ==
    IF j = 0 THEN cur
    ELSE LET k == snapshot[j].k
             v == snapshot[j].v
             done == prune_entries(cur, snapshot, j - 1)
         IN IF KeyChanged(k) THEN done
            ELSE IF ValueChanged(v)
            THEN [p \in 1..Len(done) |->
                    IF done[p].k.val = k.val
                    THEN [k |-> done[p].k, v |-> prune_changed_yaml(done[p].v)]
                    ELSE done[p]]
            ELSE DelKey(done, k)

prune_changed_yaml(d) ==
    CASE d.kind = "list" ->
           LET n == Len(d.items)
               tagged == [i \in 1..n |-> [id |-> i, node |-> d.items[i]]]
               left == prune_items(tagged, d.items, reversed_enumerate(n), n)
           IN [d EXCEPT !.items = [p \in 1..Len(left) |-> left[p].node]]
      [] d.kind = "dict" ->
           [d EXCEPT !.entries = prune_entries(d.entries, d.entries, Len(d.entries))]
      [] OTHER -> d

\* Line numbers a diff can report as added in the file.
AddedLines == 1..(MaxMark + 1)

\* get_changed_yaml's _isolate(yaml_data, changes.get(yaml_path, ())) on the
\* loaded document, the file's ranges being those get_added_lines coalesced
Isolate(lines) ==
    /\ pc = "parsed"
    /\ calls = <<>>
    /\ changes' = _rangeify(sorted(lines))
    /\ before' = data
    /\ data' = _isolate(data, changes')
    /\ calls' = Append(calls, "isolate")
    /\ UNCHANGED <<pc, mark, stack, root, count, loaded>>
    /\ UNCHANGED gitvars
    /\ UNCHANGED appvars

\* a caller's prune_changed_yaml(data)
Prune ==
    /\ pc = "parsed"
    /\ Len(SelectSeq(calls, LAMBDA c : c = "prune")) < 2
    /\ before' = data
    /\ data' = prune_changed_yaml(data)
    /\ calls' = Append(calls, "prune")
    /\ UNCHANGED <<pc, mark, stack, root, count, changes, loaded>>
    /\ UNCHANGED gitvars
    /\ UNCHANGED appvars

\* no review is being built and no analyzer runs
AppOff ==
    /\ elements = <<>>
    /\ last_added = <<>>
    /\ mpc = "off"
    /\ md_changes = <<>>
    /\ md_result = <<>>

\* no repository is involved
GitOff ==
    /\ gpc = "off"
    /\ parents = <<>>
    /\ HEAD = 0
    /\ args = <<>>
    /\ revs = <<>>
    /\ trees = <<>>
    /\ file_lines = <<>>
    /\ all_changes = <<>>
    /\ yaml_data = <<>>
    /\ result = <<>>
    /\ trace = <<>>

Init ==
    /\ pc = "compose"
    /\ mark = 0
    /\ stack = <<>>
    /\ root = None
    /\ count = 0
    /\ data = None
    /\ changes = <<>>
    /\ loaded = None
    /\ before = None
    /\ calls = <<>>
    /\ GitOff
    /\ AppOff

Next ==
    \/ NewLine
    \/ \E val \in KeyVals \cup ScalarVals, span \in 0..MaxSpan : ComposeScalar(val, span)
    \/ \E kind \in {"map", "seq"} : ComposeCollectionStart(kind)
    \/ ComposeCollectionEnd
    \/ Construct
    \/ \E lines \in SUBSET AddedLines : Isolate(lines)
    \/ Prune

Spec == Init /\ [][Next]_allvars

\* ------------------------------------------- git_lines.py: the repository
\* a ref argument left at its default None; commits are numbered from 1
NoRef == 0

\* the head side of a diff that is the working tree (head is None)
WorkingTree == 0

\* the refs a call can name: every commit of the repository
Refs == 1..Len(parents)

RECURSIVE Ancestors(_)
\* the commits reachable from commit c, c included
Ancestors(c) ==
    {c} \cup UNION {Ancestors(parents[c][i]) : i \in 1..Len(parents[c])}

\* mutant of merge_base: the target itself is taken as the merge base
merge_base_is_target(target, head) == {target}

\* mutant of merge_base: a lone commit stands in when there is no ancestor
merge_base_or_target(target, head) ==
    LET common == Ancestors(target) \cap Ancestors(head)
    IN IF common = {} THEN {target}
       ELSE {c \in common : \A d \in common \ {c} : c \notin Ancestors(d)}

\* repo.merge_base(target, head): git prints one best common ancestor, any
\* of them when there are several, and nothing when the histories are apart
merge_base(target, head) ==
    LET common == Ancestors(target) \cap Ancestors(head)
    IN {c \in common : \A d \in common \ {c} : c \notin Ancestors(d)}

\* mutant of first_parent: the last parent of a merge is taken
last_parent(head) == parents[head][Len(parents[head])]

\* head.parents[0]
first_parent(head) == parents[head][1]

\* a commit is made on top of the commits ps (none: an orphan root; two: a
\* merge) and becomes the checked-out commit
GitCommit(ps) ==
    /\ gpc = "repo"
    /\ Len(parents) < MaxCommits
    /\ parents' = Append(parents, ps)
    /\ HEAD' = Len(parents) + 1
    /\ UNCHANGED <<gpc, args, revs, trees, file_lines, all_changes,
                   yaml_data, result, trace>>
    /\ UNCHANGED vars
    /\ UNCHANGED appvars

\* another commit is checked out
GitCheckout(c) ==
    /\ gpc = "repo"
    /\ c # HEAD
    /\ HEAD' = c
    /\ UNCHANGED <<gpc, parents, args, revs, trees, file_lines, all_changes,
                   yaml_data, result, trace>>
    /\ UNCHANGED vars
    /\ UNCHANGED appvars

\* ---------------------------------------- git_lines.py: get_added_lines
\* the repository-relative paths of the two files of the repository
Files == {"f", "g"}

\* the order in which git lists the files of a diff
FileOrder == <<"f", "g">>

\* the non-empty lists of distinct paths a caller can ask for
PathLists ==
    {ps \in UNION {[1..n -> Files] : n \in 1..Cardinality(Files)} :
        \A i, j \in 1..Len(ps) : i # j => ps[i] # ps[j]}

\* the lists of parents a new commit can have: none, one, or two (a merge)
ParentLists ==
    {<<>>} \cup {<<c>> : c \in Refs}
           \cup {ps \in Refs \X Refs : ps[1] # ps[2]}

\* The text of a file is a set of line texts kept in a fixed order, so a
\* diff between two versions is unique: text t is line Rank(t, text).
\* "f" takes any of its line texts, "g" is the one line text 1 when it exists.
Texts(file) == IF file = "f" THEN SUBSET (1..MaxLines) ELSE {{1}}

\* the versions a file can have: missing, or a text
Contents(file) ==
    {[exists |-> FALSE, text |-> {}]}
        \cup {[exists |-> TRUE, text |-> t] : t \in Texts(file)}

\* the trees a commit or the working tree can have
Trees == {t \in [Files -> UNION {Contents(p) : p \in Files}] :
             \A p \in Files : t[p] \in Contents(p)}

\* the 1-based line number of text t in a file
Rank(t, text) == Cardinality({u \in text : u <= t})

\* the target_line_no of every LINE_TYPE_ADDED line of one file's patch
added_line_nos(a, b) == {Rank(t, b.text) : t \in b.text \ a.text}

\* a Python dict as the sequence of its items, in insertion order
Keys(dict) == {dict[i].k : i \in 1..Len(dict)}

\* dict.get(key, default)
Get(dict, key, default) ==
    IF key \in Keys(dict)
    THEN (CHOOSE e \in {dict[i] : i \in 1..Len(dict)} : e.k = key).v
    ELSE default

\* one step of the history of a call
Event(op, path) == [op |-> op, path |-> path]

\* get_changed_yaml(path, paths, target_ref=..., head_ref=...) is entered
\* and calls get_added_lines
GetChangedYaml(target_ref, head_ref, paths) ==
    /\ gpc = "repo"
    /\ parents # <<>>
    /\ args' = [entry |-> "get_changed_yaml", target_ref |-> target_ref,
                head_ref |-> head_ref, paths |-> paths]
    /\ trace' = <<Event("get_added_lines", "")>>
    /\ gpc' = "called"
    /\ UNCHANGED <<parents, HEAD, revs, trees, file_lines, all_changes,
                   yaml_data, result>>
    /\ UNCHANGED vars
    /\ UNCHANGED appvars

\* get_added_lines(path, target_ref=..., head_ref=...) is called on its own,
\* without a path filter
GetAddedLines(target_ref, head_ref) ==
    /\ gpc = "repo"
    /\ parents # <<>>
    /\ args' = [entry |-> "get_added_lines", target_ref |-> target_ref,
                head_ref |-> head_ref, paths |-> None]
    /\ trace' = <<Event("get_added_lines", "")>>
    /\ gpc' = "called"
    /\ UNCHANGED <<parents, HEAD, revs, trees, file_lines, all_changes,
                   yaml_data, result>>
    /\ UNCHANGED vars
    /\ UNCHANGED appvars

\* an exception leaves get_added_lines and, uncaught, get_changed_yaml
Raise(error) ==
    /\ gpc' = "raised"
    /\ result' = error
    /\ UNCHANGED <<parents, HEAD, revs>>

\* the commits the diff is made between (head is WorkingTree for None)
Resolved(head, target, base) ==
    /\ revs' = [head |-> head, target |-> target, base |-> base]
    /\ gpc' = "resolved"
    /\ parents' = <<>>
    /\ HEAD' = 0
    /\ result' = result

\* the target commit of get_added_lines
target_commit(target_ref, head) ==
    IF target_ref # NoRef THEN target_ref
    ELSE IF head # WorkingTree THEN first_parent(head)
    ELSE HEAD

\* get_added_lines settles the head, the target and the base of the diff;
\* the commit graph is not read again once they are settled
Resolve ==
    /\ gpc = "called"
    /\ LET head == IF args.head_ref # NoRef THEN args.head_ref ELSE WorkingTree
       IN IF args.target_ref = NoRef /\ head # WorkingTree
                                     /\ parents[head] = <<>>
          THEN Raise("IndexError")
          ELSE LET target == target_commit(args.target_ref, head) IN
               IF head # WorkingTree
               THEN IF merge_base(target, head) = {}
                    THEN Raise("RuntimeError")
                    ELSE \E base \in merge_base(target, head) :
                            Resolved(head, target, base)
               ELSE Resolved(head, target, target)
    /\ UNCHANGED <<args, trees, file_lines, all_changes, yaml_data, trace>>
    /\ UNCHANGED vars
    /\ UNCHANGED appvars

\* the files of base.diff(head, paths, True): those that differ and pass the
\* path filter; a file the index does not know is not part of a diff
Diffed(a, b, untracked, paths) ==
    SelectSeq(FileOrder,
              LAMBDA p : /\ a[p] # b[p]
                         /\ p \notin untracked
                         /\ paths = None \/ \E i \in 1..Len(paths) : paths[i] = p)

\* the dict lines after the loop over the diffs: a file gets its key with its
\* first added line (a deleted file has none, with or without a b_path)
collect_lines(a, b, diffs) ==
    LET with_added == SelectSeq(diffs,
                                LAMBDA p : added_line_nos(a[p], b[p]) # {})
    IN [i \in 1..Len(with_added) |->
           [k |-> with_added[i], v |-> added_line_nos(a[with_added[i]],
                                                      b[with_added[i]])]]

\* base.diff(head, paths, True) and the collection of the added lines, for
\* the trees a and b that the base and the head side turn out to have
Diff(a, b, untracked) ==
    /\ gpc = "resolved"
    /\ revs.head = revs.base => a = b
    /\ untracked \subseteq (IF revs.head = WorkingTree
                            THEN {p \in Files : ~a[p].exists /\ b[p].exists}
                            ELSE {})
    /\ trees' = [base |-> a, head |-> b, untracked |-> untracked]
    /\ file_lines' = collect_lines(a, b, Diffed(a, b, untracked, args.paths))
    /\ gpc' = "added"
    \* the Repo is closed and the commits go out of scope
    /\ revs' = <<>>
    /\ UNCHANGED <<parents, HEAD, args, all_changes, yaml_data, result, trace>>
    /\ UNCHANGED vars
    /\ UNCHANGED appvars

\* mutant of added_lines_result: the keys are the files with added lines
\* whatever paths were asked for
added_lines_result_changed_only(lines, paths) ==
    IF lines = <<>> THEN None
    ELSE [i \in 1..Len(lines) |->
            [k |-> lines[i].k, v |-> _rangeify(sorted(lines[i].v))]]

\* mutant of added_lines_result: the early return on an empty dict is lost
added_lines_result_unguarded(lines, paths) ==
    LET keys == IF paths # None THEN paths
                ELSE [i \in 1..Len(lines) |-> lines[i].k]
    IN [i \in 1..Len(keys) |->
          [k |-> keys[i], v |-> _rangeify(sorted(Get(lines, keys[i], {})))]]

\* what get_added_lines returns for the dict lines
added_lines_result(lines, paths) ==
    IF lines = <<>> THEN None
    ELSE LET keys == IF paths # None THEN paths
                     ELSE [i \in 1..Len(lines) |-> lines[i].k]
         IN [i \in 1..Len(keys) |->
               [k |-> keys[i], v |-> _rangeify(sorted(Get(lines, keys[i], {})))]]

\* mutant of not_changes: get_changed_yaml goes on whatever came back
never_not_changes(chgs) == FALSE

\* `not changes` for an Optional[Mapping]: None and the empty dict
not_changes(chgs) == chgs = None

\* get_added_lines returns; get_changed_yaml returns None at once when the
\* change set is empty
ReturnAddedLines ==
    /\ gpc = "added"
    /\ all_changes' = added_lines_result(file_lines, args.paths)
    /\ IF args.entry = "get_added_lines" \/ not_changes(all_changes')
       THEN /\ gpc' = "returned"
            /\ result' = IF args.entry = "get_added_lines"
                         THEN all_changes' ELSE None
       ELSE /\ gpc' = "loading"
            /\ result' = result
    /\ UNCHANGED <<parents, HEAD, args, revs, trees, file_lines, yaml_data,
                   trace>>
    /\ UNCHANGED vars
    /\ UNCHANGED appvars

\* ------------------------------------- yaml_changes.py: get_changed_yaml
\* The files hold block YAML of one shape: line text 1 is the mapping key
\* "a:", every other line text t is the sequence item "- ItemVals[t - 1]".
ItemVals == <<"a", "1", "b", "c", "d">>

\* the composer's nodes for the items on the 0-based lines first, first+1, ...
item_nodes(ts, first) ==
    [i \in 1..Len(ts) |->
        MkNode(ResolveTag(ItemVals[ts[i] - 1]),
               compose_node_lines(first + i - 1, first + i - 1),
               <<>>, <<>>, ItemVals[ts[i] - 1])]

\* the composer's node graph for a text; the empty text has no document
compose_document(text) ==
    LET ts == sorted(text \ {1})
        a_key == MkNode("str", compose_node_lines(0, 0), <<>>, <<>>, "a")
        null == MkNode("null", compose_node_lines(0, 0), <<>>, <<>>, "")
    IN IF 1 \in text
       THEN MkNode("map", compose_node_lines(0, 0), <<>>,
                   <<[k |-> a_key,
                      v |-> IF ts = <<>> THEN null
                            ELSE MkNode("seq", compose_node_lines(1, 1),
                                        item_nodes(ts, 1), <<>>, "")]>>, "")
       ELSE MkNode("seq", compose_node_lines(0, 0), item_nodes(ts, 0), <<>>, "")

\* yaml.load(stream, Loader=AnnotatedSafeLoader): None for an empty stream
yaml_load(text) ==
    IF text = {} THEN MkNode("int", None, <<>>, <<>>, "")
    ELSE construct_object(compose_document(text))

\* a line text the YAML scanner fails on (a flow sequence left open)
BadLine == 0

\* trees whose file "g" may be malformed YAML
MalformedTrees ==
    Trees \cup {[t EXCEPT !["g"] = [exists |-> TRUE, text |-> {BadLine}]] :
                   t \in Trees}

\* the next requested file is read at the head revision and parsed; a file
\* that is not there makes the lookup or the open raise, a malformed one
\* makes yaml.load raise
LoadYaml ==
    /\ gpc = "loading"
    /\ Len(yaml_data) < Len(args.paths)
    /\ LET yaml_path == args.paths[Len(yaml_data) + 1]
           file == trees.head[yaml_path]
       IN /\ trace' = Append(trace, Event("read", yaml_path))
          /\ IF file.exists /\ BadLine \in file.text
             THEN /\ Raise("YAMLError")
                  /\ yaml_data' = yaml_data
             ELSE IF file.exists
             THEN /\ yaml_data' = Append(yaml_data,
                                         [k |-> yaml_path,
                                          v |-> yaml_load(file.text)])
                  /\ UNCHANGED <<gpc, result, parents, HEAD, revs>>
             ELSE /\ Raise(IF args.head_ref # NoRef THEN "KeyError"
                           ELSE "FileNotFoundError")
                  /\ yaml_data' = yaml_data
    /\ UNCHANGED <<args, trees, file_lines, all_changes>>
    /\ UNCHANGED vars
    /\ UNCHANGED appvars

\* mutant of isolate_file: the document is pruned as well
isolate_file_and_prune(yaml_path, document, chgs) ==
    prune_changed_yaml(_isolate(document, Get(chgs, yaml_path, <<>>)))

\* _isolate(yaml_data, changes.get(yaml_path, ()))
isolate_file(yaml_path, document, chgs) ==
    _isolate(document, Get(chgs, yaml_path, <<>>))

\* every loaded document is isolated and the dict data is returned;
\* yaml_data keeps the documents as they were loaded
IsolateAll ==
    /\ gpc = "loading"
    /\ Len(yaml_data) = Len(args.paths)
    /\ result' = [i \in 1..Len(yaml_data) |->
                    [k |-> yaml_data[i].k,
                     v |-> isolate_file(yaml_data[i].k, yaml_data[i].v,
                                        all_changes)]]
    /\ gpc' = "returned"
    /\ UNCHANGED <<parents, HEAD, args, revs, trees, file_lines, all_changes,
                   yaml_data, trace>>
    /\ UNCHANGED vars
    /\ UNCHANGED appvars

GitInit ==
    /\ gpc = "repo"
    /\ parents = <<>>
    /\ HEAD = 0
    /\ args = <<>>
    /\ revs = <<>>
    /\ trees = <<>>
    /\ file_lines = <<>>
    /\ all_changes = <<>>
    /\ yaml_data = <<>>
    /\ result = <<>>
    /\ trace = <<>>
    \* no document is being parsed outside the call
    /\ pc = "off"
    /\ mark = 0
    /\ stack = <<>>
    /\ root = None
    /\ count = 0
    /\ data = None
    /\ changes = <<>>
    /\ loaded = None
    /\ before = None
    /\ calls = <<>>
    /\ AppOff

GitNext ==
    \/ \E ps \in ParentLists : GitCommit(ps)
    \/ \E c \in Refs : GitCheckout(c)
    \/ \E target_ref \in {NoRef} \cup Refs, head_ref \in {NoRef} \cup Refs,
          paths \in PathLists : GetChangedYaml(target_ref, head_ref, paths)
    \/ \E target_ref \in {NoRef} \cup Refs, head_ref \in {NoRef} \cup Refs :
          GetAddedLines(target_ref, head_ref)
    \/ Resolve
    \/ \E a \in Trees, b \in Trees, untracked \in SUBSET Files :
          Diff(a, b, untracked)
    \/ ReturnAddedLines
    \/ LoadYaml
    \/ IsolateAll

SpecGit == GitInit /\ [][GitNext]_allvars

\* get_changed_yaml on a repository of two commits, the second on top of the
\* first and checked out, whose file "g" may have become malformed
LoadInit ==
    /\ gpc = "repo"
    /\ parents = <<<<>>, <<1>>>>
    /\ HEAD = 2
    /\ args = <<>>
    /\ revs = <<>>
    /\ trees = <<>>
    /\ file_lines = <<>>
    /\ all_changes = <<>>
    /\ yaml_data = <<>>
    /\ result = <<>>
    /\ trace = <<>>
    /\ pc = "off"
    /\ mark = 0
    /\ stack = <<>>
    /\ root = None
    /\ count = 0
    /\ data = None
    /\ changes = <<>>
    /\ loaded = None
    /\ before = None
    /\ calls = <<>>
    /\ AppOff

LoadNext ==
    \/ \E target_ref \in {NoRef} \cup Refs, head_ref \in {NoRef} \cup Refs,
          paths \in PathLists : GetChangedYaml(target_ref, head_ref, paths)
    \/ Resolve
    \/ \E a \in Trees, b \in MalformedTrees, untracked \in SUBSET Files :
          Diff(a, b, untracked)
    \/ ReturnAddedLines
    \/ LoadYaml
    \/ IsolateAll

SpecLoad == LoadInit /\ [][LoadNext]_allvars

\* ================================================================== review.py
\* the state of a process that neither parses YAML nor reads a repository
LinesOff ==
    /\ pc = "off"
    /\ mark = 0
    /\ stack = <<>>
    /\ root = None
    /\ count = 0
    /\ data = None
    /\ changes = <<>>
    /\ loaded = None
    /\ before = None
    /\ calls = <<>>
    /\ GitOff

\* the most criteria a review collects
MaxCriteria == 4

\* class Recommendation(IntEnum)
DISAPPROVE == 0
NEUTRAL == 1
APPROVE == 2

Recommendations == {DISAPPROVE, NEUTRAL, APPROVE}

\* Criterion(recommendation, rationale); the rationale is free text
Criterion(rec) == [recommendation |-> rec]

AnalyzerNames == {"yamllint", "multidistro"}

\* what one analyzer hands back as criteria: None, or a list of criteria
CriteriaLists ==
    {None}
    \cup {<<Criterion(r)>> : r \in Recommendations}
    \cup {<<Criterion(r), Criterion(q)>> : r \in Recommendations,
                                           q \in Recommendations}

RECURSIVE chain_from_iterable(_)
\* itertools.chain.from_iterable(self.elements.values())
chain_from_iterable(elems) ==
    IF elems = <<>> THEN <<>>
    ELSE Head(elems).v \o chain_from_iterable(Tail(elems))

\* max(recs, default=default)
max_default(recs, default) ==
    IF recs = <<>> THEN default
    ELSE CHOOSE m \in {recs[i] : i \in 1..Len(recs)} :
            \A i \in 1..Len(recs) : m >= recs[i]

\* min(recs, default=default)
min_default(recs, default) ==
    IF recs = <<>> THEN default
    ELSE CHOOSE m \in {recs[i] : i \in 1..Len(recs)} :
            \A i \in 1..Len(recs) : m <= recs[i]

\* Review.recommendation
recommendation(elems) ==
    LET criteria == chain_from_iterable(elems) IN
    min_default([i \in 1..Len(criteria) |-> criteria[i].recommendation],
                NEUTRAL)

\* review.elements.setdefault(analyzer_name, [])
setdefault(elems, analyzer_name) ==
    IF \E i \in 1..Len(elems) : elems[i].k = analyzer_name THEN elems
    ELSE Append(elems, [k |-> analyzer_name, v |-> <<>>])

\* review.elements[analyzer_name].extend(criteria)
extend(elems, analyzer_name, criteria) ==
    [i \in 1..Len(elems) |->
        IF elems[i].k = analyzer_name
        THEN [k |-> elems[i].k, v |-> elems[i].v \o criteria]
        ELSE elems[i]]

\* one analyzer's criteria are taken into the review
CollectCriteria(analyzer_name, criteria) ==
    /\ mpc = "review"
    /\ Len(chain_from_iterable(elements)) + Len(criteria) <= MaxCriteria
    /\ IF criteria # <<>>
       THEN /\ elements' = extend(setdefault(elements, analyzer_name),
                                  analyzer_name, criteria)
            /\ last_added' =
                  [before |-> recommendation(elements),
                   had |-> Len(chain_from_iterable(elements)),
                   criteria |-> criteria]
       ELSE UNCHANGED <<elements, last_added>>
    /\ UNCHANGED <<mpc, md_changes, md_result>>
    /\ UNCHANGED vars
    /\ UNCHANGED gitvars

\* review = Review()
ReviewInit ==
    /\ elements = <<>>
    /\ last_added = <<>>
    /\ mpc = "review"
    /\ md_changes = <<>>
    /\ md_result = <<>>
    /\ LinesOff

ReviewNext ==
    \E analyzer_name \in AnalyzerNames, criteria \in CriteriaLists :
        CollectCriteria(analyzer_name, criteria)

SpecReview == ReviewInit /\ [][ReviewNext]_allvars

\* ============================================================ multidistro.py
\* Path(filename).parts of the files a change may touch
MdPaths ==
    <<<<"distribution.yaml">>,
      <<"iron", "distribution.yaml">>,
      <<"rolling", "distribution.yaml">>,
      <<"rolling", "release.yaml">>,
      <<"x", "rolling", "distribution.yaml">>>>

\* Path(filename).name
path_name(parts) == parts[Len(parts)]

\* Path(filename).parent.name
parent_name(parts) == parts[Len(parts) - 1]

\* the composer's node for an event that starts and ends on one 0-based line
NodeAt(kind, line, items, entries, val) ==
    MkNode(kind, compose_node_lines(line, line), items, entries, val)

\* the composer's nodes of the four-line text
\*   top:
\*     r:
\*       k1: {}
\*       k2: {}
RepoText(top, k1, k2) ==
    NodeAt("map", 0, <<>>,
        <<[k |-> NodeAt("str", 0, <<>>, <<>>, top),
           v |-> NodeAt("map", 1, <<>>,
                    <<[k |-> NodeAt("str", 1, <<>>, <<>>, "r"),
                       v |-> NodeAt("map", 2, <<>>,
                                <<[k |-> NodeAt("str", 2, <<>>, <<>>, k1),
                                   v |-> NodeAt("map", 2, <<>>, <<>>, "")],
                                  [k |-> NodeAt("str", 3, <<>>, <<>>, k2),
                                   v |-> NodeAt("map", 3, <<>>, <<>>, "")]>>,
                                "")]>>, "")]>>, "")

\* the composer's nodes of the texts a distribution file may hold
MdTexts ==
    {RepoText("repositories", "release", "source"),
     RepoText("repositories", "source", "doc"),
     RepoText("release", "source", "doc"),
     \* repositories:
     \*   r: release
     NodeAt("map", 0, <<>>,
        <<[k |-> NodeAt("str", 0, <<>>, <<>>, "repositories"),
           v |-> NodeAt("map", 1, <<>>,
                    <<[k |-> NodeAt("str", 1, <<>>, <<>>, "r"),
                       v |-> NodeAt("str", 1, <<>>, <<>>, "release")]>>,
                    "")]>>, ""),
     \* repositories:
     \*   - release
     \*   - source
     NodeAt("map", 0, <<>>,
        <<[k |-> NodeAt("str", 0, <<>>, <<>>, "repositories"),
           v |-> NodeAt("seq", 1,
                    <<NodeAt("str", 1, <<>>, <<>>, "release"),
                      NodeAt("str", 2, <<>>, <<>>, "source")>>,
                    <<>>, "")]>>, "")}

\* the sets of added line numbers a changed distribution file may have
MdAdded == {{1, 2, 3, 4}, {1}, {3}, {4}}

\* what get_changed_yaml(path, [filename]) meets: a well-formed file with its
\* text and added lines, or a file the YAML scanner fails on
MdFiles(parts) ==
    {[parts |-> parts, wellformed |-> TRUE, text |-> t, added |-> l] :
        t \in MdTexts, l \in MdAdded}
    \cup {[parts |-> parts, wellformed |-> FALSE,
           text |-> NodeAt("seq", 0, <<>>, <<>>, ""), added |-> {1}]}

\* a changed file analyze does not read
MdOther(parts) ==
    {[parts |-> parts, wellformed |-> TRUE,
      text |-> NodeAt("seq", 0, <<>>, <<>>, ""), added |-> {1}]}

\* data.get(key) on an annotated mapping; a missing key gives None
dict_get(d, key) ==
    IF \E i \in 1..Len(d.entries) : d.entries[i].k.val = key
    THEN (CHOOSE e \in {d.entries[i] : i \in 1..Len(d.entries)} :
             e.k.val = key).v
    ELSE MkNode("int", None, <<>>, <<>>, "")

\* the check of repositories -> * -> release on the pruned document
has_release_change(d) ==
    /\ d.kind = "dict"
    /\ LET repos == dict_get(d, "repositories") IN
       /\ repos.kind = "dict"
       /\ \E i \in 1..Len(repos.entries) :
             LET repo == repos.entries[i].v IN
             /\ repo.kind = "dict"
             /\ \E j \in 1..Len(repo.entries) :
                   repo.entries[j].k.val = "release"

\* get_changed_yaml(path, [filename])[filename] followed by
\* prune_changed_yaml(data), for a well-formed file
pruned_changes(file) ==
    prune_changed_yaml(
        _isolate(construct_object(file.text), _rangeify(sorted(file.added))))

\* the file passes the two filters at the head of the loop
is_distribution_file(parts) ==
    ~(Len(parts) < 2) /\ ~(path_name(parts) # "distribution.yaml")

RECURSIVE analyze_files(_, _, _)
\* the loop over changes.keys() from the i-th file on, with the locals
\* distros_with_release_changes and distro_changes in acc; it ends early
\* when get_changed_yaml raises
analyze_files(files, i, acc) ==
    IF i > Len(files) THEN acc
    ELSE LET file == files[i] IN
         IF ~is_distribution_file(file.parts)
         THEN analyze_files(files, i + 1, acc)
         ELSE IF ~file.wellformed
         THEN [acc EXCEPT !.raised = TRUE]
         ELSE IF has_release_change(pruned_changes(file))
         THEN analyze_files(files, i + 1,
                 [acc EXCEPT
                     !.distros_with_release_changes =
                         @ \cup {parent_name(file.parts)},
                     !.distro_changes = Append(@, file)])
         ELSE analyze_files(files, i + 1, acc)

\* mutant of too_few: a single distribution is already too many
too_few_strict(distros) == Cardinality(distros) < 1

\* len(distros_with_release_changes) <= 1
too_few(distros) == Cardinality(distros) <= 1

\* Annotation(str(file_path), lines[0], message)
Annotation(file) ==
    [file |-> file.parts, lines |-> _rangeify(sorted(file.added))[1]]

\* MultiDistroAnalyzer.analyze on a change that added lines to the files
MultiDistroAnalyze(files) ==
    /\ mpc = "idle"
    /\ md_changes' = files
    /\ LET acc == analyze_files(files, 1,
                      [raised |-> FALSE,
                       distros_with_release_changes |-> {},
                       distro_changes |-> <<>>])
       IN IF files = <<>>
          THEN /\ mpc' = "returned"
               /\ md_result' = [criteria |-> None, annotations |-> None]
          ELSE IF acc.raised
          THEN /\ mpc' = "raised"
               /\ md_result' = "YAMLError"
          ELSE IF too_few(acc.distros_with_release_changes)
          THEN /\ mpc' = "returned"
               /\ md_result' = [criteria |-> None, annotations |-> None]
          ELSE /\ mpc' = "returned"
               /\ md_result' =
                     [criteria |-> <<Criterion(DISAPPROVE)>>,
                      annotations |->
                         [j \in 1..Len(acc.distro_changes) |->
                             Annotation(acc.distro_changes[j])]]
    /\ UNCHANGED <<elements, last_added>>
    /\ UNCHANGED vars
    /\ UNCHANGED gitvars

\* the changes get_added_lines may report: any of the paths, in path order
MdChanges ==
    LET opt(i) == {<<>>} \cup
                  {<<f>> : f \in IF is_distribution_file(MdPaths[i])
                                  THEN MdFiles(MdPaths[i])
                                  ELSE MdOther(MdPaths[i])}
    IN {a \o b \o c \o d \o e :
           a \in opt(1), b \in opt(2), c \in opt(3), d \in opt(4),
           e \in opt(5)}

MultiInit ==
    /\ elements = <<>>
    /\ last_added = <<>>
    /\ mpc = "idle"
    /\ md_changes = <<>>
    /\ md_result = <<>>
    /\ LinesOff

MultiNext ==
    /\ mpc = "idle"
    /\ \E files \in MdChanges : MultiDistroAnalyze(files)

SpecMulti == MultiInit /\ [][MultiNext]_allvars

\* ================================================================== claims
\* the node carries a range (its __lines__ is set and is not None)
HasRange(x) == GetLines(x) # None

\* the line numbers of a half-open range
LinesOf(r) == start(r)..(stop(r) - 1)

\* r and some range of chgs have a line number in common
SharesLine(r, chgs) ==
    /\ r # None
    /\ \E i \in 1..Len(chgs) : LinesOf(r) \cap LinesOf(chgs[i]) # {}

IsContainer(x) == x.kind \in {"list", "dict"}

NumChildren(x) == Len(x.items) + Len(x.entries)

LastCall == IF calls = <<>> THEN "none" ELSE calls[Len(calls)]

\* the non-empty ranges over the lines of a file, and None
Needles ==
    {None} \cup {r \in (1..(MaxMark + 2)) \X (1..(MaxMark + 3)) : r[1] < r[2]}

\* ---- C1
RECURSIVE ClearedOutside(_, _, _)
\* post is pre with every range that shares no line with chgs cleared,
\* except inside the value of a mapping key that shares a line with chgs
ClearedOutside(pre, post, chgs) ==
    /\ (HasLinesAttr(pre) /\ ~SharesLine(pre.lines, chgs)) => post.lines = None
    /\ \A i \in 1..Len(pre.items) :
          ClearedOutside(pre.items[i], post.items[i], chgs)
    /\ \A i \in 1..Len(pre.entries) :
          LET k == pre.entries[i].k IN
          \/ SharesLine(GetLines(k), chgs)
          \/ /\ HasLinesAttr(k) => post.entries[i].k.lines = None
             /\ ClearedOutside(pre.entries[i].v, post.entries[i].v, chgs)

\* C1: after isolate, every node and every mapping key at any depth whose
\* range does not overlap the change set has its range cleared, the only
\* exemption being the value subtree of a key that overlaps.
C1_IsolateClearsEveryUntouched ==
    calls = <<"isolate">> => ClearedOutside(before, data, changes)

\* ---- C5
\* C5: pruning an already pruned document changes nothing.
C5_PruneIdempotent ==
    (Len(calls) >= 2 /\ calls[Len(calls)] = "prune"
                     /\ calls[Len(calls) - 1] = "prune") => data = before

\* a second prune has run on an isolated document whose first prune removed
\* something
C5_Witness ==
    /\ calls = <<"isolate", "prune", "prune">>
    /\ changes # <<>>
    /\ NumChildren(data) > 0
    /\ NumChildren(data) < NumChildren(loaded)

\* ---- C7
\* C7: isolate with an empty range list followed by prune leaves a root
\* mapping or sequence in place with zero children.
C7_EmptyChangesLeaveEmptyRoot ==
    (calls = <<"isolate", "prune">> /\ changes = <<>> /\ IsContainer(loaded))
        => (data.kind = loaded.kind /\ NumChildren(data) = 0)

\* an isolate with no ranges and a prune have run on a root with children
C7_Witness ==
    /\ calls = <<"isolate", "prune">>
    /\ changes = <<>>
    /\ IsContainer(loaded)
    /\ NumChildren(loaded) >= 2
    /\ NumChildren(data) = 0

\* ---- C8
\* C8: isolating a parsed document against exactly its root's own range
\* clears nothing.
C8_IsolateRootRangeChangesNothing ==
    (calls = <<"isolate">> /\ HasLinesAttr(loaded)
                           /\ changes = <<loaded.lines>>) => data = loaded

\* the document was isolated against its root's range, which the parser had
\* to widen beyond the line the root starts on
C8_Witness ==
    /\ calls = <<"isolate">>
    /\ IsContainer(loaded)
    /\ changes = <<loaded.lines>>
    /\ stop(loaded.lines) > start(loaded.lines) + 1
    /\ NumChildren(loaded) >= 2

\* ---- C10
\* C10: _contains(needle, haystack) is True exactly when needle is not None
\* and shares a line number with a range of the haystack; adjacent ranges do
\* not intersect, and a None needle or an empty haystack gives False.
C10_ContainsIffSharesLine ==
    \A needle \in Needles :
        /\ _contains(needle, changes) <=>
              (needle # None /\ SharesLine(needle, changes))
        /\ (needle = None \/ changes = <<>>) => ~_contains(needle, changes)
        /\ \A i \in 1..Len(changes) :
              (needle # None /\ (stop(needle) = start(changes[i])
                                 \/ start(needle) = stop(changes[i])))
                  => ~_contains(needle, <<changes[i]>>)

\* _isolate has tested ranges against a change set of two ranges that have
\* neighbours on both sides
C10_Witness ==
    /\ calls = <<"isolate">>
    /\ Len(changes) = 2
    /\ _contains(range(1, 2), changes)
    /\ ~_contains(range(2, 3), changes)
    /\ HasRange(loaded) /\ ~HasRange(data)

\* ---- C2
RECURSIVE ProtectedEntries(_, _)
RECURSIVE ProtectedOfItems(_, _, _)
RECURSIVE ProtectedOfEntries(_, _, _)

\* the mapping entries of t, in document order, whose key shares a line with
\* chgs and that do not lie inside the value of another such entry
ProtectedEntries(t, chgs) ==
    ProtectedOfItems(t.items, Len(t.items), chgs)
        \o ProtectedOfEntries(t.entries, Len(t.entries), chgs)

ProtectedOfItems(items, i, chgs) ==
    IF i = 0 THEN <<>>
    ELSE ProtectedOfItems(items, i - 1, chgs) \o ProtectedEntries(items[i], chgs)

ProtectedOfEntries(entries, i, chgs) ==
    IF i = 0 THEN <<>>
    ELSE ProtectedOfEntries(entries, i - 1, chgs)
         \o (IF SharesLine(GetLines(entries[i].k), chgs)
             THEN <<entries[i]>>
             ELSE ProtectedEntries(entries[i].v, chgs))

\* some child of the container v carries a range that shares no line with chgs
UntouchedInside(v, chgs) ==
    \/ \E i \in 1..Len(v.items) :
          HasRange(v.items[i]) /\ ~SharesLine(v.items[i].lines, chgs)
    \/ \E i \in 1..Len(v.entries) :
          \/ HasRange(v.entries[i].k) /\ ~SharesLine(v.entries[i].k.lines, chgs)
          \/ HasRange(v.entries[i].v) /\ ~SharesLine(v.entries[i].v.lines, chgs)

\* C2: every mapping entry whose key overlaps the change set comes through
\* isolate, and through the prunes that follow, with its key and its whole
\* value subtree exactly as parsed.
C2_KeyChangeKeepsValueSubtree ==
    (calls # <<>> /\ calls[1] = "isolate")
        => ProtectedEntries(data, changes) = ProtectedEntries(loaded, changes)

\* isolate and prune have run where a key is in the change set and its value
\* holds annotated nodes that are not
C2_Witness ==
    /\ calls = <<"isolate", "prune">>
    /\ \E i \in 1..Len(ProtectedEntries(data, changes)) :
          LET e == ProtectedEntries(data, changes)[i] IN
          /\ IsContainer(e.v)
          /\ ~SharesLine(e.v.lines, changes)
          /\ UntouchedInside(e.v, changes)

\* ---- alignment of a pruned container with what it was
HasKey(entries, kval) == \E i \in 1..Len(entries) : entries[i].k.val = kval

EntryOf(entries, kval) ==
    entries[CHOOSE i \in 1..Len(entries) : entries[i].k.val = kval]

KeptItems(items) == SelectSeq(items, HasRange)

\* kind, range and text of the node itself, its children left aside
Shallow(x) == <<x.kind, x.lines, x.val>>

\* ---- C3
RECURSIVE MappingRule(_, _)
\* post is what pruning left of pre: in every mapping that was pruned, the
\* entries present afterwards are exactly those whose key has a range or
\* whose pruned value has a range or a child
MappingRule(pre, post) ==
    /\ pre.kind = "dict" =>
          /\ \A i \in 1..Len(pre.entries) :
                LET e == pre.entries[i]
                    pv == prune_changed_yaml(e.v)
                    stays == HasRange(e.k) \/ HasRange(pv) \/ NumChildren(pv) > 0
                IN /\ HasKey(post.entries, e.k.val) <=> stays
                   /\ (stays /\ ~HasRange(e.k) /\ HasKey(post.entries, e.k.val))
                         => MappingRule(e.v, EntryOf(post.entries, e.k.val).v)
          /\ \A j \in 1..Len(post.entries) :
                HasKey(pre.entries, post.entries[j].k.val)
    /\ (pre.kind = "list" /\ Len(post.items) = Len(KeptItems(pre.items))) =>
          \A j \in 1..Len(post.items) :
              MappingRule(KeptItems(pre.items)[j], post.items[j])

\* C3: after prune, a mapping entry is present iff its key has a range, or
\* its value, once pruned, still has a range or at least one child.
C3_MappingEntrySurvival ==
    LastCall = "prune" => MappingRule(before, data)

\* prune has run on an isolated root mapping and kept an entry whose key
\* had lost its range, for its value alone
C3_Witness ==
    /\ calls = <<"isolate", "prune">>
    /\ before.kind = "dict"
    /\ changes # <<>>
    /\ \E j \in 1..Len(data.entries) :
          ~HasRange(data.entries[j].k) /\ HasRange(data.entries[j].v)

\* ---- C4
RECURSIVE SequenceRule(_, _)
\* post is what pruning left of pre: every sequence that was pruned holds
\* exactly its items that had a range, in their order, each of them pruned
SequenceRule(pre, post) ==
    /\ pre.kind = "list" =>
          /\ Len(post.items) = Len(KeptItems(pre.items))
          /\ \A j \in 1..Len(post.items) :
                /\ Shallow(post.items[j]) = Shallow(KeptItems(pre.items)[j])
                /\ post.items[j] = prune_changed_yaml(KeptItems(pre.items)[j])
                /\ SequenceRule(KeptItems(pre.items)[j], post.items[j])
    /\ pre.kind = "dict" =>
          \A j \in 1..Len(post.entries) :
              LET p == post.entries[j] IN
              (~HasRange(p.k) /\ HasKey(pre.entries, p.k.val))
                  => SequenceRule(EntryOf(pre.entries, p.k.val).v, p.v)

\* C4: prune on a sequence removes exactly the items without a range and
\* keeps the others in their order, each pruned in place; no kept item is
\* lost to a shift of indices.
C4_SequenceItemsSurvival ==
    LastCall = "prune" => SequenceRule(before, data)

\* prune has run on a root sequence of three items and removed two of them
\* from before the one it kept
C4_Witness ==
    /\ LastCall = "prune"
    /\ before.kind = "list"
    /\ Len(before.items) = 3
    /\ ~HasRange(before.items[1])
    /\ ~HasRange(before.items[2])
    /\ HasRange(before.items[3])
    /\ Len(data.items) = 1

\* ---- C6
RECURSIVE EmptiesStay(_, _)
\* post is what pruning left of pre: every container that had a reason to
\* survive is where it was among the survivors, whatever it still holds
EmptiesStay(pre, post) ==
    /\ post.kind = pre.kind
    /\ \A i \in 1..Len(pre.items) :
          LET item == pre.items[i]
              j == Len(KeptItems(SubSeq(pre.items, 1, i)))
          IN (IsContainer(item) /\ HasRange(item)) =>
                /\ j <= Len(post.items)
                /\ Shallow(post.items[j]) = Shallow(item)
                /\ EmptiesStay(item, post.items[j])
    /\ \A i \in 1..Len(pre.entries) :
          LET e == pre.entries[i] IN
          (IsContainer(e.v) /\ (HasRange(e.k) \/ HasRange(e.v))) =>
                /\ HasKey(post.entries, e.k.val)
                /\ Shallow(EntryOf(post.entries, e.k.val).v) = Shallow(e.v)
                /\ ~HasRange(e.k) => EmptiesStay(e.v, EntryOf(post.entries, e.k.val).v)
                /\ HasRange(e.k) => EntryOf(post.entries, e.k.val).v = e.v

\* some container below the root of t has no children
RECURSIVE HasEmptyBelow(_)
HasEmptyBelow(t) ==
    \/ \E i \in 1..Len(t.items) :
          \/ IsContainer(t.items[i]) /\ NumChildren(t.items[i]) = 0
          \/ HasEmptyBelow(t.items[i])
    \/ \E i \in 1..Len(t.entries) :
          \/ IsContainer(t.entries[i].v) /\ NumChildren(t.entries[i].v) = 0
          \/ HasEmptyBelow(t.entries[i].v)

\* C6: prune never removes a container for being empty: the root, an item
\* with a range and a value under a key with a range (or with a range of its
\* own) stay in place even with zero children.
C6_EmptyContainersStay ==
    LastCall = "prune" => EmptiesStay(before, data)

\* prune has emptied a container below the root and left it there
C6_Witness ==
    /\ calls = <<"isolate", "prune">>
    /\ ~HasEmptyBelow(before)
    /\ HasEmptyBelow(data)

\* ---- C9
RECURSIVE ItemsTestedAlone(_, _, _)
\* post is pre isolated: outside the value of a key that shares a line with
\* chgs, each sequence item with a range keeps it iff it shares a line
ItemsTestedAlone(pre, post, chgs) ==
    /\ \A i \in 1..Len(pre.items) :
          /\ HasRange(pre.items[i]) =>
                (HasRange(post.items[i]) <=> SharesLine(pre.items[i].lines, chgs))
          /\ ItemsTestedAlone(pre.items[i], post.items[i], chgs)
    /\ \A i \in 1..Len(pre.entries) :
          \/ SharesLine(GetLines(pre.entries[i].k), chgs)
          \/ ItemsTestedAlone(pre.entries[i].v, post.entries[i].v, chgs)

\* C9: in isolate every sequence item keeps its range iff its own range
\* overlaps the change set; only a mapping key extends to a whole subtree.
C9_SequenceItemsIndependent ==
    calls = <<"isolate">> => ItemsTestedAlone(before, data, changes)

\* ---- C11
\* the ranges rs are the minimal cover of the line numbers S
Coalesced(S, rs) ==
    /\ \A n \in S : Cardinality({i \in 1..Len(rs) : n \in LinesOf(rs[i])}) = 1
    /\ \A i \in 1..Len(rs) : LinesOf(rs[i]) \subseteq S
    /\ \A i \in 1..Len(rs) : stop(rs[i]) > start(rs[i])
    /\ \A i \in 1..(Len(rs) - 1) : stop(rs[i]) < start(rs[i + 1])

\* C11: the ranges get_added_lines returns for a file cover each of the
\* file's added line numbers exactly once and no other line, ascend, are
\* non-empty, and no two of them overlap or touch.
C11_RangesCoverAddedLinesMinimally ==
    \A i \in 1..Len(all_changes) :
        Coalesced(Get(file_lines, all_changes[i].k, {}), all_changes[i].v)

\* a file's added lines came back as two ranges
C11_Witness ==
    \E i \in 1..Len(all_changes) : Len(all_changes[i].v) = 2

\* ---- C12
\* list(r) for a range
range_list(r) == [i \in 1..(stop(r) - start(r)) |-> start(r) + i - 1]

RECURSIVE Expand(_, _)
\* the line numbers of the ranges rs[1..i], in order
Expand(rs, i) ==
    IF i = 0 THEN <<>> ELSE Expand(rs, i - 1) \o range_list(rs[i])

\* C12: coalescing the line numbers of the ranges get_added_lines returned
\* for a file gives the same ranges again.
C12_RangeifyIdempotent ==
    \A i \in 1..Len(all_changes) :
        LET rs == all_changes[i].v
        IN _rangeify(Expand(rs, Len(rs))) = rs

\* a returned range spans more than one line
C12_Witness ==
    \E i \in 1..Len(all_changes) :
        \E j \in 1..Len(all_changes[i].v) :
            stop(all_changes[i].v[j]) - start(all_changes[i].v[j]) >= 2

\* ---- C13
\* get_added_lines has returned (to its caller, or to get_changed_yaml)
AddedLinesReturned ==
    \/ gpc \in {"loading", "returned"}
    \/ gpc = "raised" /\ result \notin {"IndexError", "RuntimeError"}

\* the file is part of the diff that was asked for
InDiff(p) ==
    /\ p \notin trees.untracked
    /\ args.paths = None \/ \E i \in 1..Len(args.paths) : args.paths[i] = p

\* the line texts of the head side that the base side does not have
AddedTexts(p) == trees.head[p].text \ trees.base[p].text

\* the value is a mapping from the paths ks to lists of non-empty ranges
IsRangeMapping(m, ks) ==
    /\ m # None
    /\ Len(m) = Len(ks)
    /\ \A i \in 1..Len(m) :
          /\ m[i].k = ks[i]
          /\ \A j \in 1..Len(m[i].v) : start(m[i].v[j]) < stop(m[i].v[j])

\* C13: get_added_lines returns None exactly when the diffed files have no
\* added line between them, and otherwise a mapping from file paths (the
\* requested ones, or else the ones with added lines) to ranges.
C13_NoneIffNoAddedLines ==
    AddedLinesReturned =>
        LET none_added == \A p \in Files : InDiff(p) => AddedTexts(p) = {}
            changed == SelectSeq(FileOrder,
                                 LAMBDA p : InDiff(p) /\ AddedTexts(p) # {})
        IN /\ all_changes = None <=> none_added
           /\ ~none_added =>
                 IsRangeMapping(all_changes,
                                IF args.paths # None THEN args.paths
                                ELSE changed)

\* None came back although a file outside the path filter has added lines
\* and the requested file only lost lines
C13_Witness ==
    /\ gpc = "returned"
    /\ all_changes = None
    /\ \E p \in Files : ~InDiff(p) /\ AddedTexts(p) # {}
    /\ \E p \in Files :
          InDiff(p) /\ trees.head[p].text # trees.base[p].text

\* ---- C14
\* C14: when get_added_lines settles its revisions, an absent head_ref makes
\* the head side the working tree and the base the target_ref commit, or the
\* checked-out commit when target_ref is absent too; a head_ref without a
\* target_ref makes the target the first parent of the head commit.
C14_RevisionResolution ==
    [][(gpc = "called" /\ gpc' = "resolved") =>
          /\ args.head_ref = NoRef =>
                /\ revs'.head = WorkingTree
                /\ revs'.base = (IF args.target_ref # NoRef
                                 THEN args.target_ref ELSE HEAD)
          /\ args.head_ref # NoRef =>
                /\ revs'.head = args.head_ref
                /\ args.target_ref = NoRef =>
                      revs'.target = parents[args.head_ref][1]]_allvars

\* the target of a call with only a head_ref was settled two commits back
C14_Witness ==
    /\ gpc = "resolved"
    /\ args.head_ref # NoRef
    /\ args.target_ref = NoRef
    /\ revs.target + 1 < revs.head

\* ---- C15
\* c is an ancestor of both commits and no other common ancestor descends
\* from it
IsMergeBase(c, target, head) ==
    /\ c \in Ancestors(target) \cap Ancestors(head)
    /\ \A d \in (Ancestors(target) \cap Ancestors(head)) \ {c} :
          c \notin Ancestors(d)

\* the added line numbers of file p, read off the two sides of the diff
AddedLineNos(t, p) ==
    {Cardinality({u \in t.head[p].text : u <= x}) :
        x \in t.head[p].text \ t.base[p].text}

\* C15: with both refs given the base of the diff is a merge base of the
\* target and head commits (not the target, unless it is one), and the lines
\* reported are exactly the lines the head side has and the base side lacks.
C15_DiffAgainstMergeBase ==
    [][/\ (gpc = "called" /\ gpc' = "resolved"
            /\ args.head_ref # NoRef /\ args.target_ref # NoRef) =>
             /\ revs'.head = args.head_ref
             /\ revs'.target = args.target_ref
             /\ IsMergeBase(revs'.base, args.target_ref, args.head_ref)
       /\ (gpc = "resolved" /\ gpc' = "added") =>
             /\ revs.head = revs.base => trees'.head = trees'.base
             /\ \A p \in Files :
                   Get(file_lines', p, {}) =
                      IF p \in trees'.untracked
                         \/ (args.paths # None
                             /\ \A i \in 1..Len(args.paths) : args.paths[i] # p)
                      THEN {} ELSE AddedLineNos(trees', p)]_allvars

\* both refs were given and the base is neither the target nor the head
C15_Witness ==
    /\ gpc = "resolved"
    /\ args.head_ref # NoRef
    /\ args.target_ref # NoRef
    /\ revs.base \notin {revs.target, revs.head}

\* ---- C16
\* C16: when head_ref is given and the target and head commits have no
\* common ancestor, get_added_lines raises RuntimeError; nothing is
\* returned, and the error ends the call (get_changed_yaml neither catches
\* it nor calls again).
C16_NoMergeBaseRaises ==
    [][/\ (gpc = "called" /\ args.head_ref # NoRef /\ args.target_ref # NoRef
            /\ Ancestors(args.target_ref) \cap Ancestors(args.head_ref) = {}) =>
             /\ gpc' = "raised"
             /\ result' = "RuntimeError"
             /\ all_changes' = all_changes
             /\ trace' = trace
       /\ gpc = "raised" => FALSE]_allvars

\* get_changed_yaml ended with the RuntimeError of get_added_lines
C16_Witness ==
    /\ gpc = "raised"
    /\ result = "RuntimeError"
    /\ args.entry = "get_changed_yaml"
    /\ trace = <<Event("get_added_lines", "")>>

\* ---- C17
\* the steps of the history that are file reads
Reads == SelectSeq(trace, LAMBDA e : e.op = "read")

\* C17: a get_changed_yaml call has called get_added_lines exactly once,
\* before any file read; when that call returned None, get_changed_yaml has
\* returned None and no file was read or parsed.
C17_OneDiffBeforeAnyRead ==
    (gpc \notin {"off", "repo"} /\ args.entry = "get_changed_yaml") =>
        /\ trace[1].op = "get_added_lines"
        /\ Len(Reads) = Len(trace) - 1
        /\ ~AddedLinesReturned => Reads = <<>>
        /\ (AddedLinesReturned /\ all_changes = None) =>
              /\ gpc = "returned"
              /\ result = None
              /\ Reads = <<>>
              /\ yaml_data = <<>>

\* get_changed_yaml returned None and left a requested file that is there
\* at the head unread
C17_Witness ==
    /\ gpc = "returned"
    /\ args.entry = "get_changed_yaml"
    /\ all_changes = None
    /\ \A i \in 1..Len(args.paths) : trees.head[args.paths[i]].exists

\* ---- C18
\* the call is over: it returned or raised
CallEnded == gpc \in {"returned", "raised"}

RECURSIVE NoRangeLeft(_)
\* no node of the tree carries a range
NoRangeLeft(x) ==
    /\ ~HasRange(x)
    /\ \A i \in 1..Len(x.items) : NoRangeLeft(x.items[i])
    /\ \A i \in 1..Len(x.entries) :
          ~HasRange(x.entries[i].k) /\ NoRangeLeft(x.entries[i].v)

\* C18: a get_changed_yaml call whose change set is not None returns a
\* mapping with one entry per requested file, each the file's document
\* isolated against the file's own ranges, and against the empty list (no
\* range is left) when the change set has none for it.
C18_EveryRequestedFileIsolatedAlone ==
    (CallEnded /\ args.entry = "get_changed_yaml"
               /\ AddedLinesReturned /\ all_changes # None) =>
        /\ gpc = "returned"
        /\ Len(result) = Len(args.paths)
        /\ \A i \in 1..Len(args.paths) :
              LET own == Get(all_changes, args.paths[i], <<>>)
                  parsed == yaml_load(trees.head[args.paths[i]].text)
              IN /\ result[i].k = args.paths[i]
                 /\ result[i].v = _isolate(parsed, own)
                 /\ own = <<>> => NoRangeLeft(result[i].v)

\* ---- C19
RECURSIVE SameButRanges(_, _)
\* post has the entries, items and scalars of pre in the same order, and
\* each of its ranges is the one of pre or None
SameButRanges(pre, post) ==
    /\ post.kind = pre.kind
    /\ post.val = pre.val
    /\ post.lines = None \/ post.lines = pre.lines
    /\ Len(post.items) = Len(pre.items)
    /\ \A i \in 1..Len(pre.items) : SameButRanges(pre.items[i], post.items[i])
    /\ Len(post.entries) = Len(pre.entries)
    /\ \A i \in 1..Len(pre.entries) :
          /\ SameButRanges(pre.entries[i].k, post.entries[i].k)
          /\ SameButRanges(pre.entries[i].v, post.entries[i].v)

\* C19: every document get_changed_yaml returns is the freshly parsed
\* document with nothing removed or reordered; only ranges were set to None.
C19_ReturnedTreesAreUnpruned ==
    (gpc = "returned" /\ args.entry = "get_changed_yaml") =>
        \A i \in 1..Len(result) :
            /\ result[i].k = yaml_data[i].k
            /\ SameButRanges(yaml_data[i].v, result[i].v)

\* a returned document lost some of its ranges and pruning it would have
\* removed something
C19_Witness ==
    /\ gpc = "returned"
    /\ args.entry = "get_changed_yaml"
    /\ \E i \in 1..Len(result) :
          /\ result[i].v # yaml_data[i].v
          /\ HasRange(result[i].v)
          /\ prune_changed_yaml(result[i].v) # result[i].v

\* ---- C20
\* C20: a get_changed_yaml call that asks for a file missing at the head
\* revision does not raise for it, whatever the other requested files hold;
\* if it returns documents, the missing file's is None.
C20_MissingFileNeverRaises ==
    (AddedLinesReturned /\ args.entry = "get_changed_yaml") =>
        \A i \in 1..Len(args.paths) :
            ~trees.head[args.paths[i]].exists =>
                /\ gpc # "raised"
                /\ (gpc = "returned" /\ result # None) =>
                      ~HasLinesAttr(result[i].v)

\* ---- C21
\* C21: a requested file that is malformed YAML does not end the call with
\* an error: with every requested file present, get_changed_yaml returns,
\* and when the change set is not None the result holds the isolated
\* documents of the well-formed files.
C21_ParseErrorScopedToFile ==
    (CallEnded /\ AddedLinesReturned /\ args.entry = "get_changed_yaml"
               /\ \A i \in 1..Len(args.paths) : trees.head[args.paths[i]].exists) =>
        /\ gpc = "returned"
        /\ all_changes # None =>
              \A i \in 1..Len(args.paths) :
                 LET text == trees.head[args.paths[i]].text IN
                 BadLine \notin text =>
                    \E j \in 1..Len(result) :
                       /\ result[j].k = args.paths[i]
                       /\ result[j].v =
                            _isolate(yaml_load(text),
                                     Get(all_changes, args.paths[i], <<>>))

\* ---- C22
RECURSIVE RangesWellFormed(_)
\* every range in the tree is 1-based and non-empty
RangesWellFormed(x) ==
    /\ HasRange(x) => (1 <= start(x.lines) /\ start(x.lines) < stop(x.lines))
    /\ \A i \in 1..Len(x.items) : RangesWellFormed(x.items[i])
    /\ \A i \in 1..Len(x.entries) :
          RangesWellFormed(x.entries[i].k) /\ RangesWellFormed(x.entries[i].v)

RECURSIVE BubbledOnly(_, _)
\* the constructed datum has the start of its composer node and a stop that
\* is not smaller, and so have its children
BubbledOnly(node, datum) ==
    /\ HasRange(datum) =>
          /\ start(datum.lines) = start(node.lines)
          /\ stop(datum.lines) >= stop(node.lines)
    /\ Len(datum.items) = Len(node.items)
    /\ \A i \in 1..Len(datum.items) : BubbledOnly(node.items[i], datum.items[i])
    /\ \A i \in 1..Len(datum.entries) :
          /\ \E j \in 1..Len(node.entries) :
                BubbledOnly(node.entries[j].k, datum.entries[i].k)
          /\ \E j \in 1..Len(node.entries) :
                BubbledOnly(node.entries[j].v, datum.entries[i].v)

\* the node the compose_node call of this step has made
ComposedNode ==
    IF Len(stack') > Len(stack) THEN stack'[Len(stack')]
    ELSE IF stack = <<>> THEN root'
    ELSE stack'[Len(stack')].items[Len(stack'[Len(stack')].items)]

\* C22: a compose_node call whose event starts on 0-based line s and ends
\* on line e records range(s + 1, e + 1), or range(s + 1, s + 2) when e <= s;
\* construction keeps every start and never lowers a stop; so every range
\* on a parsed mapping, sequence, string or key has 1 <= start < stop.
C22_RangesNonEmptyOneBased ==
    [][/\ count' = count + 1 =>
             ComposedNode.lines =
                IF mark' <= mark THEN range(mark + 1, mark + 2)
                ELSE range(mark + 1, mark' + 1)
       /\ (pc = "composed" /\ pc' = "parsed") =>
             /\ RangesWellFormed(root)
             /\ BubbledOnly(root, data')
             /\ RangesWellFormed(data')]_allvars

\* a parsed sequence whose stop was raised by an item that spans two lines
C22_Witness ==
    /\ pc = "parsed"
    /\ calls = <<>>
    /\ data.kind = "list"
    /\ \E i \in 1..Len(data.items) :
          /\ HasRange(data.items[i])
          /\ stop(data.items[i].lines) = start(data.items[i].lines) + 2
          /\ stop(data.lines) = stop(data.items[i].lines)
    /\ \E i \in 1..Len(data.items) :
          /\ HasRange(data.items[i])
          /\ stop(data.items[i].lines) = start(data.items[i].lines) + 1

\* ---- C23
RECURSIVE RangesIn(_)
\* the ranges carried by the tree's nodes and keys, the root's included
RangesIn(x) ==
    (IF HasRange(x) THEN {x.lines} ELSE {})
        \cup UNION {RangesIn(x.items[i]) : i \in 1..Len(x.items)}
        \cup UNION {RangesIn(x.entries[i].k) \cup RangesIn(x.entries[i].v) :
                       i \in 1..Len(x.entries)}

RECURSIVE Enclosing(_)
\* every container that carries a range starts no later and stops no
\* earlier than any range still reachable under it
Enclosing(x) ==
    /\ (IsContainer(x) /\ HasRange(x)) =>
          \A r \in RangesIn(x) :
              start(x.lines) <= start(r) /\ stop(r) <= stop(x.lines)
    /\ \A i \in 1..Len(x.items) : Enclosing(x.items[i])
    /\ \A i \in 1..Len(x.entries) : Enclosing(x.entries[i].v)

RECURSIVE StartsKept(_, _)
\* the containers of the constructed document start where their nodes do
StartsKept(node, datum) ==
    /\ HasRange(datum) => start(datum.lines) = start(node.lines)
    /\ \A i \in 1..Len(datum.items) : StartsKept(node.items[i], datum.items[i])
    /\ \A i \in 1..Len(datum.entries) :
          \E j \in 1..Len(node.entries) :
              /\ node.entries[j].k.val = datum.entries[i].k.val
              /\ StartsKept(node.entries[j].v, datum.entries[i].v)

\* C23: the parsed document has every container's stop at or after the stop
\* of each of its descendants, with the container's start left where the
\* parser put it; and after isolate and each prune every container that
\* still has its range encloses every range still reachable under it.
C23_ContainersEncloseDescendants ==
    [][/\ pc' = "parsed" => Enclosing(data')
       /\ (pc = "composed" /\ pc' = "parsed") => StartsKept(root, data')]_allvars

\* the items, keys and values directly under a node
Children(x) ==
    {x.items[i] : i \in 1..Len(x.items)}
        \cup {x.entries[i].k : i \in 1..Len(x.entries)}
        \cup {x.entries[i].v : i \in 1..Len(x.entries)}

\* after isolate and prune the root still has a range that a grandchild's
\* stop had raised
C23_Witness ==
    /\ calls = <<"isolate", "prune">>
    /\ HasRange(data)
    /\ stop(data.lines) > start(data.lines) + 1
    /\ \E c \in Children(data) : \E g \in Children(c) :
          HasRange(g) /\ stop(g.lines) = stop(data.lines)

\* ---- C24
\* the recommendations of all criteria of all elements of the review
AllRecommendations ==
    {c.recommendation :
        c \in UNION {{elements[i].v[j] : j \in 1..Len(elements[i].v)} :
                        i \in 1..Len(elements)}}

\* the recommendation is the least of all criteria, NEUTRAL without criteria
IsMostSevere ==
    LET rec == recommendation(elements) IN
    IF AllRecommendations = {} THEN rec = NEUTRAL
    ELSE /\ rec \in AllRecommendations
         /\ \A r \in AllRecommendations : rec <= r

\* C24 as stated: Review.recommendation is the minimum (DISAPPROVE < NEUTRAL
\* < APPROVE) over all criteria of all elements, NEUTRAL when the review has
\* no criteria, and adding criteria never makes it less severe than it was.
C24_AddingNeverLessSevere ==
    /\ DISAPPROVE < NEUTRAL /\ NEUTRAL < APPROVE
    /\ mpc = "review" =>
          /\ IsMostSevere
          /\ last_added # <<>> => recommendation(elements) <= last_added.before

\* C24, amended: Review.recommendation is the minimum over all criteria of
\* all elements and NEUTRAL when the review has no criteria; adding criteria
\* to a review that already has some never makes it less severe, and the
\* first criteria of a review replace the NEUTRAL default by their minimum,
\* which is less severe when they all approve.
C24_AddingToCriteriaNeverLessSevere ==
    /\ DISAPPROVE < NEUTRAL /\ NEUTRAL < APPROVE
    /\ mpc = "review" =>
          /\ IsMostSevere
          /\ (last_added # <<>> /\ last_added.had > 0) =>
                recommendation(elements) <= last_added.before
          /\ (last_added # <<>> /\ last_added.had = 0) =>
                /\ last_added.before = NEUTRAL
                /\ recommendation(elements) =
                      min_default([i \in 1..Len(last_added.criteria) |->
                                     last_added.criteria[i].recommendation],
                                  NEUTRAL)

\* APPROVE criteria were added to a review that a NEUTRAL criterion holds at
\* NEUTRAL, in a second element
C24_Witness ==
    /\ mpc = "review"
    /\ last_added # <<>>
    /\ last_added.had > 0
    /\ last_added.before = NEUTRAL
    /\ last_added.criteria = <<Criterion(APPROVE)>>
    /\ Len(elements) = 2
    /\ recommendation(elements) = NEUTRAL

\* ---- C25
\* the pruned changes of a well-formed file hold a mapping under the key
\* 'repositories' some value of which is a mapping with the key 'release'
ReleaseUnderSomeRepository(file) ==
    LET d == pruned_changes(file) IN
    /\ d.kind = "dict"
    /\ \E e \in {d.entries[i] : i \in 1..Len(d.entries)} :
          /\ e.k.val = "repositories"
          /\ e.v.kind = "dict"
          /\ \E r \in {e.v.entries[i] : i \in 1..Len(e.v.entries)} :
                /\ r.v.kind = "dict"
                /\ "release" \in {r.v.entries[i].k.val :
                                     i \in 1..Len(r.v.entries)}

\* the directories of the changed distribution.yaml files with such a key
ReleaseDistributions ==
    {f.parts[Len(f.parts) - 1] :
        f \in {md_changes[i] : i \in
                  {j \in 1..Len(md_changes) :
                      /\ Len(md_changes[j].parts) >= 2
                      /\ md_changes[j].parts[Len(md_changes[j].parts)] =
                            "distribution.yaml"
                      /\ ReleaseUnderSomeRepository(md_changes[j])}}}

RECURSIVE TouchedOnly(_, _)
\* every item of every sequence shares a line with chgs, and so does the key
\* or the value of every entry of every mapping; below a key that shares a
\* line nothing is asked
TouchedOnly(x, chgs) ==
    /\ \A i \in 1..Len(x.items) :
          /\ SharesLine(GetLines(x.items[i]), chgs)
          /\ TouchedOnly(x.items[i], chgs)
    /\ \A i \in 1..Len(x.entries) :
          \/ SharesLine(GetLines(x.entries[i].k), chgs)
          \/ /\ SharesLine(GetLines(x.entries[i].v), chgs)
             /\ TouchedOnly(x.entries[i].v, chgs)

\* C26: after isolate(root, R) followed by prune(root) on a parsed document,
\* every item left in any sequence has a range that overlaps R and every
\* entry left in any mapping has a key or a value whose range overlaps R,
\* except inside the value of a key that overlaps R, which is kept whole.
C26_OnlyTouchedSurvives ==
    calls = <<"isolate", "prune">> => TouchedOnly(data, changes)

\* isolate and prune ran on a document of nested containers, removed some of
\* its children and left a child with a child of its own
C26_Witness ==
    /\ calls = <<"isolate", "prune">>
    /\ changes # <<>>
    /\ NumChildren(data) > 0
    /\ NumChildren(data) < NumChildren(loaded)
    /\ \E c \in Children(data) : NumChildren(c) > 0

\* ---- C27
RECURSIVE Touched(_, _)
\* some node or key of the subtree shares a line with chgs
Touched(x, chgs) ==
    \/ SharesLine(GetLines(x), chgs)
    \/ \E i \in 1..Len(x.items) : Touched(x.items[i], chgs)
    \/ \E i \in 1..Len(x.entries) :
          \/ SharesLine(GetLines(x.entries[i].k), chgs)
          \/ Touched(x.entries[i].v, chgs)

RECURSIVE Survives(_, _, _)
\* post is what is left of pre, and every node and key of pre that shares a
\* line with chgs is found in post with the range it has in pre
Survives(pre, post, chgs) ==
    /\ post.kind = pre.kind
    /\ post.val = pre.val
    /\ SharesLine(GetLines(pre), chgs) => GetLines(post) = GetLines(pre)
    /\ \A i \in 1..Len(pre.items) :
          Touched(pre.items[i], chgs) =>
             \E j \in 1..Len(post.items) :
                Survives(pre.items[i], post.items[j], chgs)
    /\ \A i \in 1..Len(pre.entries) :
          LET k == pre.entries[i].k
              v == pre.entries[i].v
          IN (SharesLine(GetLines(k), chgs) \/ Touched(v, chgs)) =>
                \E j \in 1..Len(post.entries) :
                   /\ post.entries[j].k.val = k.val
                   /\ post.entries[j].k.kind = k.kind
                   /\ SharesLine(GetLines(k), chgs) =>
                         GetLines(post.entries[j].k) = GetLines(k)
                   /\ Survives(v, post.entries[j].v, chgs)

\* C27: for a parsed document, every mapping, sequence, string scalar and
\* key whose range overlaps R is still reachable from the root after
\* isolate(root, R) followed by prune(root), with the range it had.
C27_NoTouchedNodeLost ==
    calls = <<"isolate", "prune">> => Survives(loaded, data, changes)

\* isolate and prune ran on a document with a touched node two levels down,
\* next to content that was removed
C27_Witness ==
    /\ calls = <<"isolate", "prune">>
    /\ NumChildren(data) < NumChildren(loaded)
    /\ \E c \in Children(loaded) :
          /\ IsContainer(c)
          /\ \E g \in Children(c) : SharesLine(GetLines(g), changes)

\* ---- C28
RECURSIVE OnlyCleared(_, _, _)
\* post is pre but for ranges set to None, none of which shares a line with
\* chgs
OnlyCleared(pre, post, chgs) ==
    /\ post.kind = pre.kind
    /\ post.val = pre.val
    /\ \/ GetLines(post) = GetLines(pre)
       \/ GetLines(post) = None /\ ~SharesLine(GetLines(pre), chgs)
    /\ Len(post.items) = Len(pre.items)
    /\ \A i \in 1..Len(pre.items) :
          OnlyCleared(pre.items[i], post.items[i], chgs)
    /\ Len(post.entries) = Len(pre.entries)
    /\ \A i \in 1..Len(pre.entries) :
          /\ OnlyCleared(pre.entries[i].k, post.entries[i].k, chgs)
          /\ OnlyCleared(pre.entries[i].v, post.entries[i].v, chgs)

RECURSIVE SameRanges(_, _)
\* post is pre with children removed: what is left has the kind, the value
\* and the range it has in pre
SameRanges(pre, post) ==
    /\ post.kind = pre.kind
    /\ post.val = pre.val
    /\ GetLines(post) = GetLines(pre)
    /\ \A j \in 1..Len(post.items) :
          \E i \in 1..Len(pre.items) : SameRanges(pre.items[i], post.items[j])
    /\ \A j \in 1..Len(post.entries) :
          \E i \in 1..Len(pre.entries) :
             /\ SameRanges(pre.entries[i].k, post.entries[j].k)
             /\ SameRanges(pre.entries[i].v, post.entries[j].v)

\* C28: isolate only sets ranges to None on nodes and keys that do not
\* overlap the change set: it clears no range that overlaps, replaces no
\* range by another and adds, removes or reorders no entry, item or scalar
\* value; prune changes no range.
C28_IsolateOnlyClearsPruneKeepsRanges ==
    /\ calls = <<"isolate">> => OnlyCleared(before, data, changes)
    /\ LastCall = "prune" => SameRanges(before, data)

\* isolate cleared a range next to one it kept in a document of nested
\* containers, and prune then removed content
C28_Witness ==
    /\ calls = <<"isolate", "prune">>
    /\ changes # <<>>
    /\ NumChildren(data) > 0
    /\ NumChildren(data) < NumChildren(before)
    /\ \E c \in Children(before) : IsContainer(c) /\ ~HasRange(c)
    /\ \E c \in Children(data) : HasRange(c)

\* ---- C29
\* C29: when get_added_lines is called with a path filter and returns a
\* mapping, the mapping's keys are exactly the requested paths and a
\* requested file without added lines maps to an empty range sequence;
\* without a path filter only files with at least one added line appear and
\* every value is a non-empty range sequence.
C29_KeySetOfChangeSet ==
    (AddedLinesReturned /\ all_changes # None) =>
        LET with_added == {p \in Files : InDiff(p) /\ AddedTexts(p) # {}} IN
        IF args.paths # None
        THEN /\ Keys(all_changes) =
                   {args.paths[i] : i \in 1..Len(args.paths)}
             /\ \A i \in 1..Len(all_changes) :
                   all_changes[i].k \notin with_added
                       <=> all_changes[i].v = <<>>
        ELSE /\ Keys(all_changes) = with_added
             /\ \A i \in 1..Len(all_changes) : all_changes[i].v # <<>>

\* get_changed_yaml asked for two files and the mapping that came back has
\* both, one of them with an empty range sequence
C29_Witness ==
    /\ AddedLinesReturned
    /\ args.paths # None
    /\ all_changes # None
    /\ Len(all_changes) = 2
    /\ \E i \in 1..2 : all_changes[i].v = <<>>
    /\ \E i \in 1..2 : all_changes[i].v # <<>>

\* ---- C30
RECURSIVE PlainUnannotated(_)
\* no scalar other than a string carries a range, at any depth
PlainUnannotated(x) ==
    /\ x.kind = "int" => GetLines(x) = None
    /\ \A c \in Children(x) : PlainUnannotated(c)

RECURSIVE NoPlainAnywhere(_)
\* no sequence has an item that is a non-string scalar and no mapping has
\* such a value under a key without a range, at any depth
NoPlainAnywhere(x) ==
    /\ \A i \in 1..Len(x.items) :
          /\ x.items[i].kind # "int"
          /\ NoPlainAnywhere(x.items[i])
    /\ \A i \in 1..Len(x.entries) :
          /\ x.entries[i].v.kind = "int" => HasRange(x.entries[i].k)
          /\ NoPlainAnywhere(x.entries[i].v)

RECURSIVE NoPlainVisited(_)
\* the same, but nothing is asked of the value of a key that has a range
NoPlainVisited(x) ==
    /\ \A i \in 1..Len(x.items) :
          /\ x.items[i].kind # "int"
          /\ NoPlainVisited(x.items[i])
    /\ \A i \in 1..Len(x.entries) :
          \/ HasRange(x.entries[i].k)
          \/ /\ x.entries[i].v.kind # "int"
             /\ NoPlainVisited(x.entries[i].v)

\* C30 as stated: non-string scalars never carry a range, and after isolate
\* and prune no sequence has a non-string scalar item and no mapping has a
\* non-string scalar value under a key without a range, whatever the change
\* set.
C30_PruneRemovesEveryPlainScalar ==
    pc = "parsed" =>
       /\ PlainUnannotated(data)
       /\ calls = <<"isolate", "prune">> => NoPlainAnywhere(data)

\* C30, amended: non-string scalars never carry a range, and after prune no
\* sequence has a non-string scalar item and no mapping has a non-string
\* scalar value under a key without a range, outside the value of a mapping
\* key that has a range: prune leaves such a value whole, with the
\* non-string scalars in its sequences.
C30_PruneRemovesVisitedPlainScalars ==
    pc = "parsed" =>
       /\ PlainUnannotated(data)
       /\ LastCall = "prune" => NoPlainVisited(data)

\* isolate and prune ran on a document with a non-string scalar child, and
\* what is left has children, none of them a non-string scalar
C30_Witness ==
    /\ calls = <<"isolate", "prune">>
    /\ changes # <<>>
    /\ \E c \in Children(before) : c.kind = "int"
    /\ NumChildren(data) > 0
    /\ \A c \in Children(data) : c.kind # "int"

====
